---- MODULE Spec2Model ----
(***************************************************************************)
(* Verification model of the LMS part of hbs-lms-rust:                     *)
(*   src/src/lms/definitions.rs  key types, one-time key hand-out,         *)
(*                               serialisation of public and private keys  *)
(*   src/src/lms/helper.rs       Merkle tree nodes and the aux cache       *)
(*   src/src/lms/mod.rs          key-pair generation                       *)
(*   src/examples/demo.rs        the genkey / sign command line            *)
(*                                                                         *)
(* Four specifications share the variables; each leaves the variables of   *)
(* the others at their initial value:                                      *)
(*   SpecParse  LmsPublicKey to/from binary representation                 *)
(*   SpecKey    LmsPrivateKey: use_lmots_private_key, to_file, from_file   *)
(*   SpecTree   get_tree_element / get_tree_element_signing with aux       *)
(*   SpecCli    genkey and sign of the demo, step by step with I/O errors  *)
(*                                                                         *)
(* Rust values: Option<T> is a record [some |-> TRUE, val |-> x] or        *)
(* [some |-> FALSE]; a panic is an explicit outcome of kind "Panic".       *)
(* Byte strings are sequences of 0..255.                                   *)
(***************************************************************************)
EXTENDS Integers, Sequences, FiniteSets, TLC

VARIABLES
    \* ---- SpecParse
    pk,         \* Option<LmsPublicKey>: the key that was serialised, if any
    data,       \* Vec<u8> handed to from_binary_representation
    parsed,     \* outcome of from_binary_representation, kind "Pending" before
    \* ---- SpecKey
    sk,         \* the LmsPrivateKey
    ret,        \* outcome of the last use_lmots_private_key call
    calls,      \* number of use_lmots_private_key calls made so far
    handed,     \* positions in sk.key returned by the successful calls, in order
    signed,     \* leaves whose LM-OTS signature the caller has computed
    file,       \* Option<blob>: what the private-key file holds
    toFileRes,  \* outcome of the last to_file call
    loaded,     \* outcome of the last from_file call
    \* ---- SpecTree
    tsk,        \* tree private key [I, seed, h]
    aux,        \* Option<MutableExpandedAuxData>
    pubWith,    \* Option<root> from generate_key_pair_with_seed_and_aux
    pubWithout, \* Option<root> from generate_key_pair_with_seed
    probe,      \* last tree-element comparison
    \* ---- SpecCli
    fs,         \* file system: name -> content
    cmd,        \* command being run
    pc,         \* position inside the command
    local,      \* the command's local variables
    touched     \* files the running command has created or written

parseVars == <<pk, data, parsed>>
keyVars   == <<sk, ret, calls, handed, signed, file, toFileRes, loaded>>
treeVars  == <<tsk, aux, pubWith, pubWithout, probe>>
cliVars   == <<fs, cmd, pc, local, touched>>
vars      == <<pk, data, parsed, sk, ret, calls, handed, signed, file, toFileRes,
               loaded, tsk, aux, pubWith, pubWithout, probe, fs, cmd, pc, local,
               touched>>

Some(x) == [some |-> TRUE, val |-> x]
None    == [some |-> FALSE]

\* ------------------------------------------------------------------------
\* Bounds of the model
\* ------------------------------------------------------------------------
\* longest raw input handed to the public-key parser
MaxLen == 66
\* largest LMS typecode whose key vector SpecKey builds (5 is LmsSha256M32H5)
MaxKeyType == 5
\* tallest Merkle tree SpecTree builds
MaxH == 3

\* ------------------------------------------------------------------------
\* util::ustr, util::helper
\* ------------------------------------------------------------------------
\* u32 -> 4 bytes, big-endian
u32str(x) ==
    <<(x \div 16777216) % 256, (x \div 65536) % 256, (x \div 256) % 256, x % 256>>

\* 4 bytes, big-endian -> u32
str32u(b) == b[1] * 16777216 + b[2] * 65536 + b[3] * 256 + b[4]

\* insert(data, result): append data to result
insert(bytes, result) == result \o bytes

\* ------------------------------------------------------------------------
\* LmsAlgorithmType, LmsAlgorithmParameter, LmotsAlgorithmType
\* ------------------------------------------------------------------------
LmsReserved == 0

LmsAlgorithmType_from_u32(x) ==
    IF x \in {0, 5, 6, 7, 8, 9} THEN Some(x) ELSE None

\* LmsAlgorithmParameter::get: kind "Panic" for the reserved type
LmsAlgorithmParameter_get(type) ==
    CASE type = LmsReserved -> [kind |-> "Panic"]
      [] type = 5 -> [kind |-> "Ok", h |-> 5,  m |-> 32, type |-> 5]
      [] type = 6 -> [kind |-> "Ok", h |-> 10, m |-> 32, type |-> 6]
      [] type = 7 -> [kind |-> "Ok", h |-> 15, m |-> 32, type |-> 7]
      [] type = 8 -> [kind |-> "Ok", h |-> 20, m |-> 32, type |-> 8]
      [] type = 9 -> [kind |-> "Ok", h |-> 25, m |-> 32, type |-> 9]

RECURSIVE Pow2(_)
Pow2(n) == IF n = 0 THEN 1 ELSE 2 * Pow2(n - 1)

number_of_lm_ots_keys(param) == Pow2(param.h)

\* LmotsAlgorithmType::from_u32 (lm_ots::definitions): typecodes 1..4
LmotsAlgorithmType_from_u32(x) ==
    IF x \in 1..4 THEN Some(x) ELSE None

\* ------------------------------------------------------------------------
\* LmsPublicKey
\* ------------------------------------------------------------------------
LmsPublicKey_to_binary_representation(self) ==
    LET r1 == insert(u32str(self.lms_type), <<>>)
        r2 == insert(u32str(self.lm_ots_type), r1)
        r3 == insert(self.I, r2)
        r4 == insert(self.key, r3)
    IN  r4

\* a faulty variant: the length test written with 16 for the identifier
from_binary_representation_len16(d) ==
    IF Len(d) < 8 THEN [kind |-> "None"]
    ELSE
    LET lms_type == LmsAlgorithmType_from_u32(str32u(SubSeq(d, 1, 4)))
        lm_ots_type == LmotsAlgorithmType_from_u32(str32u(SubSeq(d, 5, 8)))
    IN
    IF ~lms_type.some THEN [kind |-> "None"]
    ELSE IF ~lm_ots_type.some THEN [kind |-> "None"]
    ELSE
    LET lm_parameter == LmsAlgorithmParameter_get(lms_type.val) IN
    IF lm_parameter.kind = "Panic" THEN [kind |-> "Panic"]
    ELSE IF Len(d) - 8 = 16 + lm_parameter.m THEN [kind |-> "None"]
    ELSE IF 8 + 16 > Len(d) THEN [kind |-> "Panic"]
    ELSE IF \E i \in 0..(lm_parameter.m - 1) : 24 + i >= Len(d)
         THEN [kind |-> "Panic"]
    ELSE [kind |-> "Some",
          lms_type |-> lms_type.val,
          lm_ots_type |-> lm_ots_type.val,
          I |-> SubSeq(d, 9, 24),
          key |-> [i \in 1..lm_parameter.m |-> d[24 + i]],
          tree |-> None]

\* LmsPublicKey::from_binary_representation. data_index is 0-based in the
\* source; sequences are 1-based here, so data[a..b] is SubSeq(d, a+1, b).
\* A slice or an index beyond the end of the vector panics.
LmsPublicKey_from_binary_representation(d) ==
    IF Len(d) < 8 THEN [kind |-> "None"]
    ELSE
    LET pubtype == str32u(SubSeq(d, 1, 4))
        lms_type == LmsAlgorithmType_from_u32(pubtype)
        ots_typecode == str32u(SubSeq(d, 5, 8))
        lm_ots_type == LmotsAlgorithmType_from_u32(ots_typecode)
        data_index == 8
    IN
    IF ~lms_type.some THEN [kind |-> "None"]
    ELSE IF ~lm_ots_type.some THEN [kind |-> "None"]
    ELSE
    LET lm_parameter == LmsAlgorithmParameter_get(lms_type.val) IN
    IF lm_parameter.kind = "Panic" THEN [kind |-> "Panic"]
    ELSE IF Len(d) - data_index = 24 + lm_parameter.m THEN [kind |-> "None"]
    ELSE IF data_index + 16 > Len(d) THEN [kind |-> "Panic"]
    ELSE IF \E i \in 0..(lm_parameter.m - 1) : data_index + 16 + i >= Len(d)
         THEN [kind |-> "Panic"]
    ELSE [kind |-> "Some",
          lms_type |-> lms_type.val,
          lm_ots_type |-> lm_ots_type.val,
          I |-> SubSeq(d, data_index + 1, data_index + 16),
          key |-> [i \in 1..lm_parameter.m |-> d[data_index + 16 + i]],
          tree |-> None]

\* ---- inputs of SpecParse
\* two identifiers and two roots with position-dependent bytes
ITypes == {[i \in 1..16 |-> i], [i \in 1..16 |-> 200 + i]}
Roots  == {[i \in 1..32 |-> 100 + i], [i \in 1..32 |-> 255 - i]}

\* LmsPublicKey::new with a tree; parse yields tree None
WellFormedPublicKeys ==
    [lms_type : 5..9, lm_ots_type : 1..4, I : ITypes, key : Roots,
     tree : {Some(<<>>)}]

\* typecodes tried for raw input: valid ones, the reserved 0, unknown ones,
\* and 5 in the wrong byte position
RawLmsCodes == {0, 4, 5, 9, 10, 261, 83886080}
RawOtsCodes == {0, 1, 4, 5}

RawInput(lt, ot, n) ==
    LET head == u32str(lt) \o u32str(ot)
    IN  [i \in 1..n |-> IF i <= 8 THEN head[i] ELSE (i * 7) % 256]

\* ---- actions of SpecParse
InitParse ==
    /\ pk \in {Some(k) : k \in WellFormedPublicKeys} \cup {None}
    /\ data = <<>>
    /\ parsed = [kind |-> "Pending", stage |-> "new"]

\* pk.to_binary_representation()
ToBinary ==
    /\ parsed.kind = "Pending" /\ parsed.stage = "new"
    /\ pk.some
    /\ data' = LmsPublicKey_to_binary_representation(pk.val)
    /\ parsed' = [kind |-> "Pending", stage |-> "input"]
    /\ UNCHANGED pk
    /\ UNCHANGED <<keyVars, treeVars, cliVars>>

\* bytes from elsewhere: any length up to MaxLen, any of the typecodes
Receive ==
    /\ parsed.kind = "Pending" /\ parsed.stage = "new"
    /\ ~pk.some
    /\ \E lt \in RawLmsCodes, ot \in RawOtsCodes, n \in 0..MaxLen :
          data' = RawInput(lt, ot, n)
    /\ parsed' = [kind |-> "Pending", stage |-> "input"]
    /\ UNCHANGED pk
    /\ UNCHANGED <<keyVars, treeVars, cliVars>>

\* LmsPublicKey::from_binary_representation(data)
FromBinary ==
    /\ parsed.kind = "Pending" /\ parsed.stage = "input"
    /\ parsed' = LmsPublicKey_from_binary_representation(data)
    /\ UNCHANGED <<pk, data>>
    /\ UNCHANGED <<keyVars, treeVars, cliVars>>

NextParse == ToBinary \/ Receive \/ FromBinary

\* ------------------------------------------------------------------------
\* LmsPrivateKey
\* ------------------------------------------------------------------------
\* calls made after the key vector is used up
MaxExtraCalls == 2

\* The bytes of one one-time key (p chunks of n bytes, get_flat_key) are
\* kept as one token; the tokens of distinct leaves differ and are no bytes.
KeyMaterial(leaf) == 1000 + leaf

\* LmotsPrivateKey::new(I, q, parameter, key)
LmotsPrivateKey_new(I, q, parameter, key) ==
    [I |-> I, q |-> q, parameter |-> parameter, key |-> key]

get_flat_key(k) == <<k.key>>

\* LmsPrivateKey::new
LmsPrivateKey_new(lms_type, lmots_type, key, I) ==
    [lms_type |-> lms_type, lm_ots_type |-> lmots_type, key |-> key, I |-> I,
     q |-> 0]

\* keygen::generate_private_key: 2^h one-time keys, the key of leaf i
\* carrying its own leaf index
generate_private_key(lms_type, lmots_type, I) ==
    LET n == number_of_lm_ots_keys(LmsAlgorithmParameter_get(lms_type))
    IN  LmsPrivateKey_new(lms_type, lmots_type,
            [i \in 1..n |-> LmotsPrivateKey_new(I, u32str(i - 1), lmots_type,
                                                KeyMaterial(i - 1))],
            I)

\* a faulty variant: the key is returned without advancing q
use_lmots_private_key_noinc(self) ==
    IF self.q > Len(self.key) THEN [kind |-> "Err", self |-> self]
    ELSE IF self.q >= Len(self.key) THEN [kind |-> "Panic", self |-> self]
    ELSE [kind |-> "Ok", self |-> self, pos |-> self.q]

\* a faulty variant: the key is indexed with q instead of q - 1
use_lmots_private_key_offbyone(self) ==
    IF self.q > Len(self.key) THEN [kind |-> "Err", self |-> self]
    ELSE
    LET advanced == [self EXCEPT !.q = self.q + 1] IN
    IF advanced.q >= Len(advanced.key)
        THEN [kind |-> "Panic", self |-> advanced]
    ELSE [kind |-> "Ok", self |-> advanced, pos |-> advanced.q]

\* LmsPrivateKey::use_lmots_private_key(&mut self).
\* pos is the 0-based index into self.key of the key returned.  The index
\* self.key[self.q - 1] is evaluated after self.q += 1, so an index beyond
\* the vector panics with q already advanced.  q is a u32 and q <= len + 1
\* here, so the increment does not overflow.
use_lmots_private_key(self) ==
    IF self.q > Len(self.key) THEN [kind |-> "Err", self |-> self]
    ELSE
    LET advanced == [self EXCEPT !.q = self.q + 1] IN
    IF advanced.q - 1 >= Len(advanced.key)
        THEN [kind |-> "Panic", self |-> advanced]
    ELSE [kind |-> "Ok", self |-> advanced, pos |-> advanced.q - 1]

\* iter().map(get_flat_key).flatten().collect(): the flat keys one after
\* another; every flat key has the same length
Flatten(ss) ==
    IF Len(ss) = 0 THEN <<>>
    ELSE LET w == Len(ss[1])
         IN  [i \in 1..(Len(ss) * w) |-> ss[((i - 1) \div w) + 1][((i - 1) % w) + 1]]

\* LmsPrivateKey::to_binary_representation
LmsPrivateKey_to_binary_representation(self) ==
    LET r1 == insert(u32str(self.lms_type), <<>>)
        r2 == insert(u32str(self.lm_ots_type), r1)
        r3 == insert(self.I, r2)
        r4 == insert(u32str(self.q), r3)
        keys == Flatten([i \in 1..Len(self.key) |-> get_flat_key(self.key[i])])
    IN  insert(keys, r4)

\* LmsPrivateKey::to_file(&self, filename) against the file f at that name.
\* File::open opens read-only: it fails when there is no file, and a
\* write_all of a non-empty buffer to the read-only handle fails.
LmsPrivateKey_to_file(self, f) ==
    LET binary_representation == LmsPrivateKey_to_binary_representation(self)
    IN  IF ~f.some THEN [kind |-> "Err", error |-> "NotFound", file |-> f]
        ELSE IF Len(binary_representation) > 0
            THEN [kind |-> "Err", error |-> "NotWritable", file |-> f]
        ELSE [kind |-> "Ok", file |-> f]

\* LmsPrivateKey::from_file(filename) against the file f at that name.
\* Every expect() and every short read is a panic.
LmsPrivateKey_from_file(f) ==
    IF ~f.some THEN [kind |-> "Panic"]
    ELSE
    LET d == f.val IN
    IF Len(d) < 4 THEN [kind |-> "Panic"]
    ELSE
    LET lms_type == LmsAlgorithmType_from_u32(str32u(SubSeq(d, 1, 4))) IN
    IF ~lms_type.some THEN [kind |-> "Panic"]
    ELSE
    LET lms_parameter == LmsAlgorithmParameter_get(lms_type.val) IN
    IF lms_parameter.kind = "Panic" \/ Len(d) < 8 THEN [kind |-> "Panic"]
    ELSE
    LET lm_ots_type == LmotsAlgorithmType_from_u32(str32u(SubSeq(d, 5, 8))) IN
    IF ~lm_ots_type.some \/ Len(d) < 28 THEN [kind |-> "Panic"]
    ELSE
    LET initial_buf == SubSeq(d, 9, 24)
        q == str32u(SubSeq(d, 25, 28))
        data_to_end == SubSeq(d, 29, Len(d))
        n == number_of_lm_ots_keys(lms_parameter)
    IN
    IF Len(data_to_end) < n THEN [kind |-> "Panic"]
    ELSE [kind |-> "Ok",
          key |-> [lms_type |-> lms_type.val,
                   lm_ots_type |-> lm_ots_type.val,
                   key |-> [i \in 1..n |->
                              LmotsPrivateKey_new(initial_buf, u32str(q),
                                                  lm_ots_type.val, data_to_end[i])],
                   I |-> initial_buf,
                   q |-> q]]

\* ---- inputs of SpecKey
KeyTypes == 5..MaxKeyType
KeyI == [i \in 1..16 |-> 16 + i]

\* what the file at the name may hold before to_file is called: nothing, or
\* the serialisation of an earlier state of a key of the same parameters
StaleFiles(k) ==
    {None, Some(LmsPrivateKey_to_binary_representation(k)),
           Some(LmsPrivateKey_to_binary_representation([k EXCEPT !.q = 3]))}

InitKey ==
    /\ \E t \in KeyTypes : sk = generate_private_key(t, 1, KeyI)
    /\ ret = [kind |-> "NoCall"]
    /\ calls = 0
    /\ handed = <<>>
    /\ signed = {}
    /\ file \in StaleFiles(sk)
    /\ toFileRes = [kind |-> "NoCall"]
    /\ loaded = [kind |-> "NoCall"]

\* the signer asks for the next one-time key
UseKey ==
    /\ ret.kind \in {"NoCall", "Signed", "Err", "Panic"}
    /\ calls < Len(sk.key) + MaxExtraCalls
    /\ LET r == use_lmots_private_key(sk) IN
        /\ sk' = r.self
        /\ ret' = [kind |-> r.kind, q_before |-> sk.q,
                   pos |-> IF r.kind = "Ok" THEN r.pos ELSE 0]
        /\ handed' = IF r.kind = "Ok" THEN Append(handed, r.pos) ELSE handed
    /\ calls' = calls + 1
    /\ UNCHANGED <<signed, file, toFileRes, loaded>>
    /\ UNCHANGED <<parseVars, treeVars, cliVars>>

\* the signer computes the LM-OTS signature with the key it was handed
ComputeSignature ==
    /\ ret.kind = "Ok"
    /\ signed' = signed \cup {ret.pos}
    /\ ret' = [ret EXCEPT !.kind = "Signed"]
    /\ UNCHANGED <<sk, calls, handed, file, toFileRes, loaded>>
    /\ UNCHANGED <<parseVars, treeVars, cliVars>>

\* the signing is given up after the key was handed out; the signer stops
AbortSigning ==
    /\ ret.kind = "Ok"
    /\ ret' = [ret EXCEPT !.kind = "Aborted"]
    /\ UNCHANGED <<sk, calls, handed, signed, file, toFileRes, loaded>>
    /\ UNCHANGED <<parseVars, treeVars, cliVars>>

\* sk.to_file(f)
ToFile ==
    /\ toFileRes.kind = "NoCall"
    /\ LET r == LmsPrivateKey_to_file(sk, file) IN
        /\ toFileRes' = [kind |-> r.kind, q |-> sk.q]
        /\ file' = r.file
    /\ UNCHANGED <<sk, ret, calls, handed, signed, loaded>>
    /\ UNCHANGED <<parseVars, treeVars, cliVars>>

\* LmsPrivateKey::from_file(f), after to_file as in the round-trip test
FromFile ==
    /\ toFileRes.kind # "NoCall"
    /\ loaded.kind = "NoCall"
    /\ loaded' = LmsPrivateKey_from_file(file)
    /\ UNCHANGED <<sk, ret, calls, handed, signed, file, toFileRes>>
    /\ UNCHANGED <<parseVars, treeVars, cliVars>>

NextKey == UseKey \/ ComputeSignature \/ AbortSigning \/ ToFile \/ FromFile

\* ------------------------------------------------------------------------
\* Hasher, LM-OTS keys, aux data (crate::hasher, crate::lm_ots, hss::aux)
\* ------------------------------------------------------------------------
\* The hash is kept symbolic and collision-free: a hasher's state is the
\* sequence of words absorbed so far, and the digest stands for exactly
\* that input.
get_hasher == <<>>

hasher_update(st, words) == st \o words

hasher_finalize(st) == st

D_PBLC == <<128, 128>>
D_LEAF == <<130, 130>>
D_INTR == <<131, 131>>

\* lm_ots::generate_private_key(q, I, seed, parameter): x derived from
\* (I, q, chain number, 0xff, seed); one chain is kept
lm_ots_generate_private_key(q, I, seed) ==
    [I |-> I, q |-> q,
     key |-> hasher_finalize(hasher_update(get_hasher,
                 I \o q \o <<0, 0>> \o <<255>> \o seed))]

\* lm_ots::generate_public_key: K = H(I || q || D_PBLC || chain ends)
lm_ots_generate_public_key(otsk) ==
    [I |-> otsk.I, q |-> otsk.q,
     key |-> hasher_finalize(hasher_update(get_hasher,
                 otsk.I \o otsk.q \o D_PBLC \o otsk.key))]

RECURSIVE floor_log2(_)
floor_log2(r) == IF r <= 1 THEN 0 ELSE 1 + floor_log2(r \div 2)

\* an aux buffer holding the levels in `levels`, every hash zeroed
NewAux(levels, h) ==
    [levels |-> levels,
     data |-> [r \in {n \in 1..(Pow2(h + 1) - 1) : floor_log2(n) \in levels} |->
                 [i \in 1..32 |-> 0]]]

\* hss_save_aux_data(data, index, value): kept when the level is present
hss_save_aux_data(expanded, index, value) ==
    IF floor_log2(index) \in expanded.levels
        THEN [expanded EXCEPT !.data[index] = value]
        ELSE expanded

\* hss_extract_aux_data(data, index): Some(value) when the level is present
hss_extract_aux_data(expanded, index) ==
    IF floor_log2(index) \in expanded.levels
        THEN Some(expanded.data[index])
        ELSE None

\* ------------------------------------------------------------------------
\* lms::helper
\* ------------------------------------------------------------------------
\* if let Some(expanded_aux_data) = aux_data.as_mut() { hss_save_aux_data(..) }
save_aux(aux_data, index, result) ==
    IF aux_data.some
        THEN Some(hss_save_aux_data(aux_data.val, index, result))
        ELSE aux_data

\* a faulty variant: a node is hashed without its domain separator when the aux
\* cache is being populated
RECURSIVE get_tree_element_auxsep(_, _, _)
get_tree_element_auxsep(index, private_key, aux_data) ==
    LET h0 == hasher_update(hasher_update(get_hasher, private_key.I), u32str(index))
        max_private_keys == Pow2(private_key.h)
    IN
    IF index >= max_private_keys THEN
        LET h1 == hasher_update(h0, D_LEAF)
            otsk == lm_ots_generate_private_key(u32str(index - max_private_keys),
                                                private_key.I, private_key.seed)
            opk == lm_ots_generate_public_key(otsk)
            result == hasher_finalize(hasher_update(h1, opk.key))
        IN  [value |-> result, aux |-> save_aux(aux_data, index, result),
             computed |-> {index}]
    ELSE
        LET h1 == IF aux_data.some THEN h0 ELSE hasher_update(h0, D_INTR)
            left == get_tree_element_auxsep(2 * index, private_key, aux_data)
            right == get_tree_element_auxsep(2 * index + 1, private_key, left.aux)
            h2 == hasher_update(h1, left.value)
            h3 == hasher_update(h2, right.value)
            result == hasher_finalize(h3)
        IN  [value |-> result, aux |-> save_aux(right.aux, index, result),
             computed |-> left.computed \cup right.computed \cup {index}]

\* a faulty variant: the right child is hashed before the left child
RECURSIVE get_tree_element_rightfirst(_, _, _)
get_tree_element_rightfirst(index, private_key, aux_data) ==
    LET h0 == hasher_update(hasher_update(get_hasher, private_key.I), u32str(index))
        max_private_keys == Pow2(private_key.h)
    IN
    IF index >= max_private_keys THEN
        LET h1 == hasher_update(h0, D_LEAF)
            otsk == lm_ots_generate_private_key(u32str(index - max_private_keys),
                                                private_key.I, private_key.seed)
            opk == lm_ots_generate_public_key(otsk)
            result == hasher_finalize(hasher_update(h1, opk.key))
        IN  [value |-> result, aux |-> save_aux(aux_data, index, result),
             computed |-> {index}]
    ELSE
        LET h1 == hasher_update(h0, D_INTR)
            left == get_tree_element_rightfirst(2 * index, private_key, aux_data)
            right == get_tree_element_rightfirst(2 * index + 1, private_key, left.aux)
            h2 == hasher_update(h1, right.value)
            h3 == hasher_update(h2, left.value)
            result == hasher_finalize(h3)
        IN  [value |-> result, aux |-> save_aux(right.aux, index, result),
             computed |-> left.computed \cup right.computed \cup {index}]

\* get_tree_element(index, private_key, aux_data): the node's value, the
\* aux data as the call leaves it, and the nodes the call and the calls it
\* makes have hashed
RECURSIVE get_tree_element(_, _, _)
get_tree_element(index, private_key, aux_data) ==
    LET h0 == hasher_update(hasher_update(get_hasher, private_key.I), u32str(index))
        max_private_keys == Pow2(private_key.h)
    IN
    IF index >= max_private_keys THEN
        LET h1 == hasher_update(h0, D_LEAF)
            otsk == lm_ots_generate_private_key(u32str(index - max_private_keys),
                                                private_key.I, private_key.seed)
            opk == lm_ots_generate_public_key(otsk)
            result == hasher_finalize(hasher_update(h1, opk.key))
        IN  [value |-> result, aux |-> save_aux(aux_data, index, result),
             computed |-> {index}]
    ELSE
        LET h1 == hasher_update(h0, D_INTR)
            left == get_tree_element(2 * index, private_key, aux_data)
            right == get_tree_element(2 * index + 1, private_key, left.aux)
            h2 == hasher_update(h1, left.value)
            h3 == hasher_update(h2, right.value)
            result == hasher_finalize(h3)
        IN  [value |-> result, aux |-> save_aux(right.aux, index, result),
             computed |-> left.computed \cup right.computed \cup {index}]

\* get_tree_element_signing(index, private_key, aux_data): the node's value
\* and the nodes hashed to get it
get_tree_element_signing(index, private_key, aux_data) ==
    IF aux_data.some /\ hss_extract_aux_data(aux_data.val, index).some
        THEN [value |-> hss_extract_aux_data(aux_data.val, index).val,
              computed |-> {}]
    ELSE LET r == get_tree_element(index, private_key, None)
         IN  [value |-> r.value, computed |-> r.computed]

\* ------------------------------------------------------------------------
\* lms::mod, lms::keygen
\* ------------------------------------------------------------------------
\* keygen::generate_private_key_with_seed
generate_private_key_with_seed(seed, i, h) == [I |-> i, seed |-> seed, h |-> h]

\* keygen::generate_public_key_with_aux: the root, computed while the aux
\* data is populated
generate_public_key_with_aux(private_key, aux_data) ==
    get_tree_element(1, private_key, Some(aux_data))

\* keygen::generate_public_key: the root
generate_public_key(private_key) ==
    get_tree_element(1, private_key, None).value

generate_key_pair_with_seed_and_aux(seed, h, aux_data) ==
    LET private_key == generate_private_key_with_seed(seed.seed, seed.i, h)
        r == generate_public_key_with_aux(private_key, aux_data)
    IN  [private_key |-> private_key, public_key |-> r.value, aux_data |-> r.aux.val]

generate_key_pair_with_seed(seed, h) ==
    LET private_key == generate_private_key_with_seed(seed.seed, seed.i, h)
    IN  [private_key |-> private_key, public_key |-> generate_public_key(private_key)]

\* ---- inputs of SpecTree
TreeI == {[i \in 1..16 |-> 2 * i], [i \in 1..16 |-> 90 + i]}
TreeSeeds == {[i \in 1..32 |-> (i * 5) % 256]}
Nodes(h) == 1..(Pow2(h + 1) - 1)

InitTree ==
    /\ \E i \in TreeI, s \in TreeSeeds, h \in 1..MaxH :
          /\ tsk = generate_private_key_with_seed(s, i, h)
          /\ \E levels \in SUBSET (0..h) : aux = NewAux(levels, h)
    /\ pubWith = None
    /\ pubWithout = None
    /\ probe = [kind |-> "none"]

\* generate_key_pair_with_seed_and_aux: the aux data is populated
GenerateWithAux ==
    /\ ~pubWith.some
    /\ LET kp == generate_key_pair_with_seed_and_aux(
                     [seed |-> tsk.seed, i |-> tsk.I], tsk.h, aux) IN
        /\ pubWith' = Some(kp.public_key)
        /\ aux' = kp.aux_data
    /\ UNCHANGED <<tsk, pubWithout, probe>>
    /\ UNCHANGED <<parseVars, keyVars, cliVars>>

\* generate_key_pair_with_seed
GenerateWithoutAux ==
    /\ ~pubWithout.some
    /\ pubWithout' = Some(generate_key_pair_with_seed(
                              [seed |-> tsk.seed, i |-> tsk.I], tsk.h).public_key)
    /\ UNCHANGED <<tsk, aux, pubWith, probe>>
    /\ UNCHANGED <<parseVars, keyVars, cliVars>>

\* get_tree_element(r) with no aux data and with aux data being populated
ProbeElement ==
    /\ probe.kind = "none"
    /\ \E r \in Nodes(tsk.h) :
          probe' = [kind |-> "element", r |-> r,
                    without |-> get_tree_element(r, tsk, None).value,
                    with |-> get_tree_element(r, tsk, Some(aux)).value,
                    populated |-> pubWith.some]
    /\ UNCHANGED <<tsk, aux, pubWith, pubWithout>>
    /\ UNCHANGED <<parseVars, keyVars, cliVars>>

\* get_tree_element_signing(r) with no aux data and with the aux data
ProbeSigning ==
    /\ probe.kind = "none"
    /\ \E r \in Nodes(tsk.h) :
          probe' = [kind |-> "signing", r |-> r,
                    without |-> get_tree_element_signing(r, tsk, None).value,
                    with |-> get_tree_element_signing(r, tsk, Some(aux)).value,
                    computed |-> get_tree_element_signing(r, tsk, Some(aux)).computed,
                    populated |-> pubWith.some]
    /\ UNCHANGED <<tsk, aux, pubWith, pubWithout>>
    /\ UNCHANGED <<parseVars, keyVars, cliVars>>

NextTree == GenerateWithAux \/ GenerateWithoutAux \/ ProbeElement \/ ProbeSigning

\* ------------------------------------------------------------------------
\* examples/demo.rs: genkey and sign
\* ------------------------------------------------------------------------
\* signatures one key can make
MaxLeaves == 3

Absent == [kind |-> "absent"]
Empty == [kind |-> "empty"]
Partial == [kind |-> "partial"]
Data(v) == [kind |-> "data", val |-> v]

FileNames == {"prv", "pub", "aux", "sig"}
\* "file not given", undecodable hex, fewer bytes than a Seed, a usable seed
SeedArgs == {"none", "nothex", "short", "good"}

\* hss_keygen(parameter, seed, aux): the key of the seed, or a random one
hss_keygen(seed_is_some) ==
    LET key == IF seed_is_some THEN "seeded" ELSE "random"
    IN  [public_key |-> [what |-> "pub", key |-> key],
         private_key |-> [what |-> "prv", key |-> key, q |-> 0],
         aux |-> [what |-> "aux", key |-> key]]

\* hss_sign(message, private_key, None): None for a blob that is no private
\* key or has no leaf left; else the signature of leaf q, and the blob
\* advanced in place
hss_sign(message, private_key_data) ==
    IF private_key_data.kind # "data" \/ private_key_data.val.what # "prv"
        THEN [some |-> FALSE, private_key_data |-> private_key_data]
    ELSE IF private_key_data.val.q >= MaxLeaves
        THEN [some |-> FALSE, private_key_data |-> private_key_data]
    ELSE [some |-> TRUE,
          val |-> [what |-> "sig", key |-> private_key_data.val.key,
                   q |-> private_key_data.val.q, message |-> message],
          private_key_data |->
              Data([private_key_data.val EXCEPT !.q = private_key_data.val.q + 1])]

\* a faulty variant: the signature is written before the private key
sign_writes_sigfirst(private_key_data, result) ==
    <<[name |-> "sig", content |-> Data(result)],
      [name |-> "prv", content |-> private_key_data]>>

\* sign: the two write(..)? calls at its end, in program order
sign_writes(private_key_data, result) ==
    <<[name |-> "prv", content |-> private_key_data],
      [name |-> "sig", content |-> Data(result)]>>

\* genkey: its write(..)? calls, in program order
genkey_writes(seed_is_some, keys) ==
    (IF seed_is_some THEN <<[name |-> "aux", content |-> Data(keys.aux)]>> ELSE <<>>)
    \o <<[name |-> "pub", content |-> Data(keys.public_key)],
         [name |-> "prv", content |-> Data(keys.private_key)]>>

Finished == {"idle", "ok", "err", "panic", "exit", "killed"}
NoLocal == [queue |-> <<>>, pre |-> Absent]

InitCli ==
    /\ fs = [n \in FileNames |-> Absent]
    /\ cmd = "none"
    /\ pc = "idle"
    /\ local = NoLocal
    /\ touched = [created |-> {}, written |-> {}]

\* genkey up to its first write: the seed argument is decoded and checked,
\* the keys are generated
Genkey ==
    /\ pc \in Finished
    /\ cmd' = "genkey"
    /\ touched' = [created |-> {}, written |-> {}]
    /\ \E seed \in SeedArgs :
          IF seed \in {"nothex", "short"}
          THEN pc' = "err" /\ local' = NoLocal
          ELSE /\ local' = [queue |-> genkey_writes(seed # "none", hss_keygen(seed # "none")),
                            pre |-> Absent]
               /\ pc' = "create"
    /\ UNCHANGED fs
    /\ UNCHANGED <<parseVars, keyVars, treeVars>>

\* sign up to its first write: both files are read, the message is signed
Sign ==
    /\ pc \in Finished
    /\ cmd' = "sign"
    /\ touched' = [created |-> {}, written |-> {}]
    /\ IF fs["prv"].kind = "absent"
       THEN pc' = "panic" /\ local' = NoLocal
       ELSE LET private_key_data == fs["prv"]
                result == hss_sign("message", private_key_data)
            IN  IF ~result.some
                THEN pc' = "exit" /\ local' = [queue |-> <<>>, pre |-> private_key_data]
                ELSE /\ local' = [queue |-> sign_writes(result.private_key_data, result.val),
                                  pre |-> private_key_data]
                     /\ pc' = "create"
    /\ UNCHANGED fs
    /\ UNCHANGED <<parseVars, keyVars, treeVars>>

\* write: File::create(filename)?
Create ==
    /\ pc = "create"
    /\ \/ /\ fs' = [fs EXCEPT ![Head(local.queue).name] = Empty]
          /\ touched' = [touched EXCEPT !.created = @ \cup {Head(local.queue).name}]
          /\ pc' = "write_all"
       \/ /\ pc' = "err"
          /\ UNCHANGED <<fs, touched>>
    /\ UNCHANGED <<cmd, local>>
    /\ UNCHANGED <<parseVars, keyVars, treeVars>>

\* write: file.write_all(content)?; Ok(()) after the last write
WriteAll ==
    /\ pc = "write_all"
    /\ \/ /\ fs' = [fs EXCEPT ![Head(local.queue).name] = Head(local.queue).content]
          /\ touched' = [touched EXCEPT !.written = @ \cup {Head(local.queue).name}]
          /\ local' = [local EXCEPT !.queue = Tail(@)]
          /\ pc' = IF Len(local.queue) = 1 THEN "ok" ELSE "create"
       \/ /\ fs' = [fs EXCEPT ![Head(local.queue).name] = Partial]
          /\ pc' = "err"
          /\ UNCHANGED <<touched, local>>
    /\ UNCHANGED cmd
    /\ UNCHANGED <<parseVars, keyVars, treeVars>>

\* the process is stopped between two steps
Stop ==
    /\ pc \in {"create", "write_all"}
    /\ pc' = "killed"
    /\ UNCHANGED <<fs, cmd, local, touched>>
    /\ UNCHANGED <<parseVars, keyVars, treeVars>>

NextCli == Genkey \/ Sign \/ Create \/ WriteAll \/ Stop

\* ------------------------------------------------------------------------
\* Specifications
\* ------------------------------------------------------------------------
IdleParse == pk = None /\ data = <<>> /\ parsed = [kind |-> "Idle"]
IdleKey ==
    /\ sk = [q |-> 0] /\ ret = [kind |-> "Idle"] /\ calls = 0 /\ handed = <<>>
    /\ signed = {} /\ file = None /\ toFileRes = [kind |-> "Idle"]
    /\ loaded = [kind |-> "Idle"]
IdleTree ==
    /\ tsk = [h |-> 0] /\ aux = None /\ pubWith = None /\ pubWithout = None
    /\ probe = [kind |-> "Idle"]
IdleCli ==
    /\ fs = [n \in FileNames |-> Absent] /\ cmd = "none" /\ pc = "off"
    /\ local = NoLocal /\ touched = [created |-> {}, written |-> {}]

\* each part is checked on its own, the state of the other parts held idle
StartParse == InitParse /\ IdleKey /\ IdleTree /\ IdleCli
StartKey == InitKey /\ IdleParse /\ IdleTree /\ IdleCli
StartTree == InitTree /\ IdleParse /\ IdleKey /\ IdleCli
StartCli == InitCli /\ IdleParse /\ IdleKey /\ IdleTree

SpecParse == StartParse /\ [][NextParse]_vars
SpecKey == StartKey /\ [][NextKey]_vars
SpecTree == StartTree /\ [][NextTree]_vars
SpecCli == StartCli /\ [][NextCli]_vars

\* ------------------------------------------------------------------------
\* Properties
\* ------------------------------------------------------------------------
Succeeded == {"Ok", "Signed", "Aborted"}

\* C1: leaf non-reuse.  Over the calls made on one private key from q = 0,
\* the i-th successful call returns key[i-1] and no position of the key
\* vector is returned twice.
C1_LeafNonReuse ==
    /\ \A i \in 1..Len(handed) : handed[i] = i - 1
    /\ Cardinality({handed[i] : i \in 1..Len(handed)}) = Len(handed)

\* every one-time key of the vector has been handed out
C1_Witness == Len(handed) = Len(sk.key) /\ Len(handed) >= 2

\* C2: key exhaustion.  The first 2^h calls succeed and every later call
\* returns the exhaustion error; no call panics.
C2_KeyExhaustion ==
    /\ ret.kind # "Panic"
    /\ (calls \in 1..Len(sk.key) => ret.kind \in Succeeded)
    /\ (calls > Len(sk.key) => ret.kind = "Err")

\* C3: public-key round trip.  Parsing the serialisation of a well-formed
\* public key yields Some key with the same lms_type, lm_ots_type, I and key.
C3_PublicKeyRoundTrip ==
    (pk.some /\ parsed.kind \notin {"Pending", "Idle"}) =>
        /\ parsed.kind = "Some"
        /\ parsed.lms_type = pk.val.lms_type
        /\ parsed.lm_ots_type = pk.val.lm_ots_type
        /\ parsed.I = pk.val.I
        /\ parsed.key = pk.val.key

\* a serialised key has been parsed into a key
C3_Witness == pk.some /\ parsed.kind = "Some" /\ Len(data) = 56

\* C4: private-key round trip through a file.  to_file succeeds and
\* from_file then returns a key equal to the one written, field by field.
C4_PrivateKeyFileRoundTrip ==
    /\ (toFileRes.kind \notin {"NoCall", "Idle"} => toFileRes.kind = "Ok")
    /\ (loaded.kind \notin {"NoCall", "Idle"} =>
            loaded.kind = "Ok" /\ loaded.key = sk)

ValidTypecodes(d) ==
    /\ str32u(SubSeq(d, 1, 4)) \in 5..9
    /\ str32u(SubSeq(d, 5, 8)) \in 1..4

\* C5: unknown typecodes are rejected.  Input whose LMS typecode is outside
\* 5..9 (the reserved 0 included) or whose LM-OTS typecode is outside 1..4
\* is answered with None, never with a panic or a key.
C5_UnknownTypecodesRejected ==
    (/\ parsed.kind \notin {"Pending", "Idle"}
     /\ \/ Len(data) >= 4 /\ str32u(SubSeq(data, 1, 4)) \notin 5..9
        \/ Len(data) >= 8 /\ str32u(SubSeq(data, 5, 8)) \notin 1..4)
    => parsed.kind = "None"

\* C6: wrong lengths are rejected.  Input with valid typecodes whose length
\* is not 56 is answered with None, never with a panic or a key.
C6_WrongLengthsRejected ==
    (/\ parsed.kind \notin {"Pending", "Idle"}
     /\ Len(data) # 56
     /\ (Len(data) >= 8 => ValidTypecodes(data)))
    => parsed.kind = "None"

\* C7: aux-cache transparency.  get_tree_element returns the same node with
\* and without aux data; get_tree_element_signing returns the same node
\* from aux data populated at key generation as without aux data; the
\* public key generated with aux data equals the one generated without.
C7_AuxTransparency ==
    /\ (probe.kind = "element" => probe.with = probe.without)
    /\ (probe.kind = "signing" /\ probe.populated => probe.with = probe.without)
    /\ (pubWith.some /\ pubWithout.some => pubWith.val = pubWithout.val)

\* both key pairs exist and a node was read from the populated cache
C7_Witness ==
    /\ pubWith.some /\ pubWithout.some
    /\ probe.kind = "signing" /\ probe.populated
    /\ hss_extract_aux_data(aux, probe.r).some
    /\ probe.r > 1

\* C8: persist before release.  Once a run of sign has created the
\* signature file, the private-key file holds the blob that run read,
\* advanced by one leaf.
C8_PersistBeforeRelease ==
    (cmd = "sign" /\ "sig" \in touched.created) =>
        /\ local.pre.kind = "data"
        /\ fs["prv"] = Data([local.pre.val EXCEPT !.q = local.pre.val.q + 1])

\* a run of sign has written the signature
C8_Witness == cmd = "sign" /\ pc = "ok" /\ "sig" \in touched.written

\* C9: genkey, whenever it completes successfully, has written name.prv,
\* name.pub and name.aux.
C9_GenkeyWritesAllThree ==
    (cmd = "genkey" /\ pc = "ok") => {"prv", "pub", "aux"} \subseteq touched.written

\* C10 as stated: q advances only after the leaf's signature has been
\* computed, so every leaf that q has passed has its signature computed.
C10_AdvanceAfterSignature ==
    \A i \in 0..(sk.q - 1) : i < Len(sk.key) => i \in signed

\* C10 as amended: q is advanced before the one-time key is released.  A
\* successful call returns key[q_old] with q = q_old + 1 already stored, a
\* signature exists only for leaves below q, and a call that returns the
\* exhaustion error leaves q unchanged.
C10_AdvanceBeforeRelease ==
    /\ \A i \in signed : i < sk.q
    /\ (ret.kind \in Succeeded =>
            ret.pos = ret.q_before /\ sk.q = ret.q_before + 1)
    /\ (ret.kind = "Err" => sk.q = ret.q_before)

\* the key of a leaf is out, q is past the leaf, the signature is not computed
C10_Witness == ret.kind = "Ok" /\ ret.pos \notin signed /\ sk.q = ret.pos + 1

\* the Merkle node T[r] of the tree of private_key, as the tree is defined:
\* a leaf is H(I || u32(r) || D_LEAF || K_{r - 2^h}), an internal node is
\* H(I || u32(r) || D_INTR || T[2r] || T[2r+1])
RECURSIVE MerkleT(_, _)
MerkleT(r, private_key) ==
    IF r >= Pow2(private_key.h)
        THEN private_key.I \o u32str(r) \o D_LEAF
             \o lm_ots_generate_public_key(
                    lm_ots_generate_private_key(u32str(r - Pow2(private_key.h)),
                        private_key.I, private_key.seed)).key
        ELSE private_key.I \o u32str(r) \o D_INTR
             \o MerkleT(2 * r, private_key) \o MerkleT(2 * r + 1, private_key)

\* C11: Merkle node definition.  For every heap index r of the tree,
\* get_tree_element(r) returns T[r] (with no aux data and with aux data
\* being populated), the left child hashed before the right one, and the
\* public key of a generated key pair is the root T[1].
C11_MerkleNodeDefinition ==
    /\ (probe.kind = "element" =>
            /\ probe.without = MerkleT(probe.r, tsk)
            /\ probe.with = MerkleT(probe.r, tsk))
    /\ (pubWithout.some => pubWithout.val = MerkleT(1, tsk))
    /\ (pubWith.some => pubWith.val = MerkleT(1, tsk))

\* an internal node whose children are internal nodes was computed, and so
\* was a leaf's parent, in a tree whose root was generated
C11_Witness ==
    /\ probe.kind = "element" /\ tsk.h >= 2
    /\ 4 * probe.r < Pow2(tsk.h + 1) /\ probe.r > 1
    /\ pubWithout.some

\* node n lies in the subtree whose top is node m (n = m included)
RECURSIVE InSubtree(_, _)
InSubtree(n, m) == n = m \/ (n > m /\ InSubtree(n \div 2, m))

====
